---- MODULE Spec2Model ----
(***************************************************************************)
(* Model of osmnx/_downloader.py: the disk cache keyed by request URL, the *)
(* process-wide getaddrinfo override installed by _config_dns, the slot    *)
(* scheduler _get_pause and the three request functions                    *)
(* (_overpass_request, _nominatim_request, _google_request).               *)
(*                                                                         *)
(* The program is single-threaded.  A call of a request function is run    *)
(* as a sequence of steps, one per interaction with the outside world      *)
(* (name resolution, status poll, HTTP exchange); what the outside world   *)
(* answers is the nondeterministic input of the step.                      *)
(***************************************************************************)
EXTENDS Integers, Sequences, FiniteSets, TLC

VARIABLES
    settings,            \* the settings module: the attributes this file reads
    cache,               \* the cache folder: file name -> text, or NoFile
    socket_getaddrinfo,  \* what socket.getaddrinfo is bound to
    pc,                  \* where the running call stands ("idle": no call)
    frame,               \* the arguments of the running (or last) call
    gp,                  \* the arguments of the running _get_pause call
    result,              \* how the last call ended
    trace,               \* what the running attempt of the call did, in order
    ncalls,              \* top-level calls made so far
    response,            \* the response the call handed to _parse_response
    count,               \* history: what the running call did in all its attempts
    entry0,              \* history: the cache file of frame.url when the call began
    pinned,              \* history: the hostnames _config_dns has installed
    stored,              \* history: the URLs _save_to_cache has written a file for
    download             \* the running (or last) _osm_features_download call

vars == <<settings, cache, socket_getaddrinfo, pc, frame, gp, result, trace,
          ncalls, response, count, entry0, pinned, stored, download>>

---------------------------------------------------------------------------
(* Bounds of the model *)

MaxCalls == 2      \* top-level calls and settings changes in one behaviour
MaxRetries == 2    \* 429/504 answers one request receives
MaxBusy == 1       \* "Currently" answers one request attempt receives

---------------------------------------------------------------------------
(* Values *)

\* the queries sent (the data of an Overpass request, the locations of an
\* elevation request), as they stand in the prepared URL
Queries == {"q1"}

\* a structured geocoding query: a dict, given by its keys in insertion order
QueryDicts == {<<"city", "state">>, <<"state", "city">>}

\* the alphabetical order of the keys
KeyRank(key) == CASE key = "city" -> 1 [] key = "state" -> 2 [] OTHER -> 3

sorted_keeps_order(query) == query

\* Python's sorted(query): the keys of the dict in alphabetical order
sorted(query) ==
    CHOOSE s \in [1..Len(query) -> {query[i] : i \in 1..Len(query)}] :
        /\ \A i \in 1..Len(query) : \E j \in 1..Len(query) : s[j] = query[i]
        /\ \A i, j \in 1..Len(query) : i < j => KeyRank(s[i]) <= KeyRank(s[j])

\* the params _retrieve_osm_element hands to _nominatim_request: the keys of
\* the query in the order they were added to the OrderedDict
Params(query) == sorted(query)

\* the query string of the prepared URL: the params in their order
urlencode(params) ==
    CASE params = <<"city", "state">> -> "city=c&state=s"
      [] params = <<"state", "city">> -> "state=s&city=c"
      [] OTHER -> "q"

NominatimQueries == {urlencode(Params(query)) : query \in QueryDicts}

OverpassHosts == {"overpass-a", "overpass-b"}
NominatimHost == "nominatim"
GoogleHost == "maps.google"
Hosts == OverpassHosts \cup {NominatimHost, GoogleHost}

IPs == {"ip1", "ip2"}
gaierror == "gaierror"
\* what the system resolver may answer for a hostname at one moment
SysAnswers == IPs \cup {gaierror}

\* Python's None where a number is expected (the pause argument)
PauseNone == -1

\* parsed JSON values: None, a dict (with or without the key "remark", with n
\* further elements) and a list of n dicts
None == [t |-> "None", remark |-> FALSE, n |-> 0]
JDict(remark, n) == [t |-> "dict", remark |-> remark, n |-> n]
JList(n) == [t |-> "list", remark |-> FALSE, n |-> n]

\* the JSON bodies a service answers with: an object or an array
ServerJson == {JDict(FALSE, 1), JDict(TRUE, 1), JList(0)}
Json == ServerJson \cup {None}

\* json.dumps: the text written for a value, token by token
dumps_drops_elements(v) ==
    CASE v.t = "None" -> <<"null">>
      [] v.t = "list" -> <<"[", "]">>
      [] OTHER -> <<"{">> \o (IF v.remark THEN <<"remark">> ELSE <<>>) \o <<"}">>

dumps(v) ==
    CASE v.t = "None" -> <<"null">>
      [] v.t = "list" -> <<"[">> \o [i \in 1..v.n |-> "{}"] \o <<"]">>
      [] OTHER -> <<"{">> \o (IF v.remark THEN <<"remark">> ELSE <<>>)
                         \o [i \in 1..v.n |-> "element"] \o <<"}">>

\* a body that is not JSON (an HTML error page)
NotJson == <<"<html>">>

IsJsonText(text) ==
    /\ Len(text) >= 1
    /\ \/ text = <<"null">>
       \/ Len(text) >= 2 /\ text[1] = "[" /\ text[Len(text)] = "]"
       \/ Len(text) >= 2 /\ text[1] = "{" /\ text[Len(text)] = "}"

\* json.loads on a JSON text
loads(text) ==
    CASE text = <<"null">> -> None
      [] text[1] = "[" -> JList(Len(text) - 2)
      [] OTHER ->
           LET hasRemark == Len(text) >= 3 /\ text[2] = "remark"
           IN JDict(hasRemark, Len(text) - 2 - (IF hasRemark THEN 1 ELSE 0))

\* Python's  "remark" in response_json  (a TypeError on None is "TypeError")
InRemark(v) == v.t = "dict" /\ v.remark

Texts == {dumps(v) : v \in Json} \cup {NotJson}
NoFile == <<>>

\* URLs: <<hostname, path, query>>
Url(host, path, q) == <<host, path, q>>
OverpassUrls == {Url(h, "/api/interpreter", q) : h \in OverpassHosts, q \in Queries}
NominatimUrls == {Url(NominatimHost, "/search", q) : q \in NominatimQueries}
GoogleUrls == {Url(GoogleHost, "/elevation", q) : q \in Queries}
Urls == OverpassUrls \cup NominatimUrls \cup GoogleUrls

\* the coordinate strings of the sub-polygons a query polygon is divided into,
\* and the lists _make_overpass_polygon_coord_strs may return
PolygonCoordStrs == {"p1", "p2"}
PolygonLists ==
    {<<p>> : p \in PolygonCoordStrs}
        \cup {l \in {<<p, q>> : p \in PolygonCoordStrs, q \in PolygonCoordStrs} :
                  l[1] # l[2]}
\* the Overpass query of a sub-polygon
_create_overpass_query(polygon_coord_str) ==
    CASE polygon_coord_str = "p1" -> "[out:json];(node(poly:'p1'););out;"
      [] polygon_coord_str = "p2" -> "[out:json];(node(poly:'p2'););out;"
PolygonUrls ==
    {Url(h, "/api/interpreter", _create_overpass_query(p)) :
        h \in OverpassHosts, p \in PolygonCoordStrs}

\* HTTP responses: status code and body text
StatusCodes == {200, 404, 429, 504}
Responses == [status_code : StatusCodes, text : {dumps(v) : v \in ServerJson} \cup {NotJson}]
\* requests' response.ok
ResponseOk(resp) == resp.status_code < 400

NoResponse == [status_code |-> 0, text |-> <<>>]

\* events of a call
Ev(e, a, n) == [e |-> e, a |-> a, n |-> n]

NoResult == [kind |-> "none", json |-> None, str |-> ""]
Return(v) == [kind |-> "return", json |-> v, str |-> ""]
Raise(exc) == [kind |-> "raise", json |-> None, str |-> exc]

NoFrame == [fn |-> "", url |-> Url("", "", ""), pause |-> PauseNone, error_pause |-> 0,
            depth |-> 0, json |-> None, flag |-> 0, query |-> <<>>,
            recursive_delay |-> 0, default_duration |-> 0]

\* no answer of the status endpoint
NoAnswer == [exc |-> "", lines |-> <<>>]

NoGp == [recursive_delay |-> 0, default_duration |-> 0, busy |-> 0, answer |-> NoAnswer]

---------------------------------------------------------------------------
(* The cache: _save_to_cache, _url_in_cache, _retrieve_from_cache *)

\* sha1(url).hexdigest() + ".json": one file name per URL string
CacheFile_ignores_host(url) == <<"sha1", "", url[2], url[3], ".json">>

CacheFile(url) == <<"sha1", url[1], url[2], url[3], ".json">>

Files == {CacheFile(u) : u \in Urls \cup PolygonUrls}

WillSave_unless_empty(response_json, ok) ==
    settings.use_cache /\ ok # 0 /\ response_json # None /\ response_json.n > 0

WillSave_ok_is_True(response_json, ok) ==
    settings.use_cache /\ ok = 1 /\ response_json # None

\* the condition under which _save_to_cache writes: use_cache, ok truthy,
\* response_json not None
WillSave(response_json, ok) ==
    settings.use_cache /\ ok # 0 /\ response_json # None

_save_to_cache_keeps_existing(c, url, response_json, ok) ==
    IF WillSave(response_json, ok) /\ c[CacheFile(url)] = NoFile
    THEN [c EXCEPT ![CacheFile(url)] = dumps(response_json)]
    ELSE c

_save_to_cache_never(c, url, response_json, ok) == c

_save_to_cache(c, url, response_json, ok) ==
    IF WillSave(response_json, ok)
    THEN [c EXCEPT ![CacheFile(url)] = dumps(response_json)]
    ELSE c

_url_in_cache_never(c, url) == NoFile

\* the path of the cache file of url if it exists, else NoFile
_url_in_cache(c, url) ==
    IF c[CacheFile(url)] # NoFile THEN CacheFile(url) ELSE NoFile

_retrieve_from_cache_ignores_use_cache(c, url, check_remark) ==
    IF _url_in_cache(c, url) # NoFile
    THEN LET response_json == loads(c[_url_in_cache(c, url)])
         IN IF check_remark # 0 /\ InRemark(response_json) THEN None ELSE response_json
    ELSE None

_retrieve_from_cache_keeps_remark(c, url, check_remark) ==
    IF settings.use_cache /\ _url_in_cache(c, url) # NoFile
    THEN loads(c[_url_in_cache(c, url)])
    ELSE None

_retrieve_from_cache(c, url, check_remark) ==
    IF settings.use_cache
    THEN LET cache_filepath == _url_in_cache(c, url)
         IN IF cache_filepath # NoFile
            THEN LET response_json == loads(c[cache_filepath])
                 IN IF check_remark # 0 /\ InRemark(response_json)
                    THEN None
                    ELSE response_json
            ELSE None
    ELSE None

---------------------------------------------------------------------------
(* Name resolution: _original_getaddrinfo, _config_dns, _resolve_host_via_doh *)

Unpatched == [hostname |-> "", ip |-> ""]

_hostname_from_url(url) == url[1]

\* the system resolver: an IP literal resolves to itself, a hostname to what
\* the resolver answers now
_original_getaddrinfo(name, sys) == IF name \in IPs THEN name ELSE sys

\* the closure _config_dns installs, applied: g is the installed closure
_getaddrinfo_ignores_pin(g, name, sys) == _original_getaddrinfo(name, sys)

_getaddrinfo_pins_every_name(g, name, sys) ==
    IF g # Unpatched
    THEN _original_getaddrinfo(g.ip, sys)
    ELSE _original_getaddrinfo(name, sys)

_getaddrinfo_pins_endpoints(g, name, sys) ==
    IF g # Unpatched /\ name \in OverpassHosts
    THEN _original_getaddrinfo(g.ip, sys)
    ELSE _original_getaddrinfo(name, sys)

_getaddrinfo(g, name, sys) ==
    IF g # Unpatched /\ name = g.hostname
    THEN _original_getaddrinfo(g.ip, sys)
    ELSE _original_getaddrinfo(name, sys)

\* what the DoH server may answer
DohAnswers == IPs \cup {"Status3", "RequestException", "NoStatusKey", "NoAnswer"}
\* the DoH server is asked only after the system resolver failed
DohAnswersAfter(sys) == IF sys = gaierror THEN DohAnswers ELSE {"unasked"}

\* what a resolution of name through socket.getaddrinfo may give now, over
\* the answers of the system resolver
Resolutions(g, name) == {_getaddrinfo(g, name, sys) : sys \in SysAnswers}

\* [exc, ip, ev]: the exception that escapes (or ""), the address returned
_resolve_host_via_doh(hostname, doh) ==
    IF settings.doh_url_template = "None"
    THEN [exc |-> "", ip |-> hostname, ev |-> <<>>]
    ELSE LET ev == <<Ev("GET", "doh", 0)>>
         IN CASE doh \in IPs -> [exc |-> "", ip |-> doh, ev |-> ev]
              [] doh = "NoStatusKey" -> [exc |-> "KeyError", ip |-> hostname, ev |-> ev]
              [] doh = "NoAnswer" -> [exc |-> "KeyError", ip |-> hostname, ev |-> ev]
              [] OTHER -> [exc |-> "", ip |-> hostname, ev |-> ev]

_config_dns_once(g, url, sys, doh) ==
    IF g.hostname = _hostname_from_url(url)
    THEN [exc |-> "", g |-> g, ev |-> <<>>]
    ELSE [exc |-> "", g |-> [hostname |-> _hostname_from_url(url),
                            ip |-> IF sys # gaierror THEN sys ELSE _hostname_from_url(url)],
          ev |-> <<Ev("gethostbyname", _hostname_from_url(url), 0)>>]

_config_dns_unresolved(g, url, sys, doh) ==
    [exc |-> "",
     g |-> [hostname |-> _hostname_from_url(url), ip |-> _hostname_from_url(url)],
     ev |-> <<>>]

\* [exc, g, ev]: the closure bound to socket.getaddrinfo when the call returns
_config_dns(g, url, sys, doh) ==
    LET hostname == _hostname_from_url(url)
        ev == <<Ev("gethostbyname", hostname, 0)>>
    IN IF sys # gaierror
       THEN [exc |-> "", g |-> [hostname |-> hostname, ip |-> sys], ev |-> ev]
       ELSE LET r == _resolve_host_via_doh(hostname, doh)
            IN IF r.exc # ""
               THEN [exc |-> r.exc, g |-> g, ev |-> ev \o r.ev]
               ELSE [exc |-> "", g |-> [hostname |-> hostname, ip |-> r.ip],
                     ev |-> ev \o r.ev]

---------------------------------------------------------------------------
(* The slot scheduler: _get_pause *)

DefaultRecursiveDelay == 5
DefaultDuration == 60
DefaultErrorPause == 60
NominatimPause == 1

\* a token of the status text: its characters s and, for a timestamp token
\* (s matches the strptime pattern), the half-seconds t from now to that time
TimePattern == "%Y-%m-%dT%H:%M:%SZ,"
Word(s) == [s |-> s, t |-> 0]
Timestamp(d) == [s |-> TimePattern, t |-> d]

\* half-seconds until the slot frees, in the "Slot available after" lines
SlotDeltas == {-1, 3}

StatusHead == << <<Word("Connected")>>, <<Word("Current")>>, <<Word("Announced")>>,
                 <<Word("Rate")>> >>

StatusLines ==
    {<<Word("2"), Word("slots"), Word("available"), Word("now.")>>,
     <<Word("Slot"), Word("available"), Word("after:"), Word("soon,")>>,
     <<Word("Slot"), Word("available")>>,
     <<Word("Currently"), Word("running"), Word("queries")>>,
     <<Word("Unknown"), Word("status")>>}
    \cup {<<Word("Slot"), Word("available"), Word("after:"), Timestamp(d), Word("in")>>
            : d \in SlotDeltas}

\* what the status endpoint may answer: an exception of requests.get, a text
\* of five lines, or a text of one line
StatusAnswers ==
    {[exc |-> e, lines |-> <<>>] : e \in {"ConnectionError", "ReadTimeout"}}
    \cup {[exc |-> "", lines |-> Append(StatusHead, l)] : l \in StatusLines}
    \cup {[exc |-> "", lines |-> << <<Word("error")>> >>]}

\* int(token) succeeds
IsInt(tok) == tok.s \in {"0", "1", "2", "3", "4"}

Ceil2_rounds_down(d) == d \div 2

\* ceil of d half-seconds, in seconds
Ceil2(d) == -((-d) \div 2)
Max(a, b) == IF a >= b THEN a ELSE b

PauseOf(n) == [kind |-> "return", n |-> n, exc |-> ""]
PauseRaise(exc) == [kind |-> "raise", n |-> 0, exc |-> exc]
PauseRecurse == [kind |-> "recurse", n |-> 0, exc |-> ""]

\* one evaluation of _get_pause on the answer of the status endpoint, rate
\* limiting enabled: the pause returned, the exception that escapes, or the
\* recursive call after the sleep of recursive_delay
_get_pause(answer, recursive_delay, default_duration) ==
    IF answer.exc = "ConnectionError" THEN PauseOf(default_duration)
    ELSE IF answer.exc # "" THEN PauseRaise(answer.exc)
    ELSE IF Len(answer.lines) < 5 THEN PauseOf(default_duration)
    ELSE LET status == answer.lines[5]
             status_first_token == status[1]
         IN IF IsInt(status_first_token) THEN PauseOf(0)
            ELSE IF status_first_token.s = "Slot"
                 THEN IF Len(status) < 4 THEN PauseRaise("IndexError")
                      ELSE IF status[4].s # TimePattern THEN PauseRaise("ValueError")
                      ELSE PauseOf(Max(Ceil2(status[4].t), 1))
            ELSE IF status_first_token.s = "Currently" THEN PauseRecurse
            ELSE PauseOf(default_duration)

---------------------------------------------------------------------------
(* The response parser: _parse_response *)

_parse_response_ignores_status(resp) ==
    IF ~IsJsonText(resp.text)
    THEN [exc |-> "InsufficientResponseError", json |-> None]
    ELSE [exc |-> "", json |-> loads(resp.text)]

\* [exc, json]
_parse_response(resp) ==
    IF ~IsJsonText(resp.text)
    THEN [exc |-> IF ResponseOk(resp) THEN "InsufficientResponseError"
                  ELSE "ResponseStatusCodeError",
          json |-> None]
    ELSE LET response_json == loads(resp.text)
         IN IF response_json = None
            THEN [exc |-> "TypeError", json |-> None]
            ELSE [exc |-> "", json |-> response_json]

---------------------------------------------------------------------------
(* The state after import: default settings, nothing cached, nothing pinned *)

Settings == [use_cache : BOOLEAN, overpass_rate_limit : BOOLEAN,
             doh_url_template : {"None", "https://dns.google/resolve?name={hostname}"},
             overpass_endpoint : OverpassHosts]

NoCount == [retried |-> 0, errsleeps |-> 0, writes |-> 0, returns |-> 0]

\* no features download: state is "none", "loop", "returned" or "raised";
\* issued counts the sub-requests begun, done lists those that returned, value
\* is what the download returned
NoDownload == [state |-> "none", polygon_coord_strs |-> <<>>, issued |-> 0,
               done |-> <<>>, response_jsons |-> <<>>, value |-> <<>>]

Init ==
    /\ settings = [use_cache |-> TRUE, overpass_rate_limit |-> TRUE,
                   doh_url_template |-> "https://dns.google/resolve?name={hostname}",
                   overpass_endpoint |-> "overpass-a"]
    /\ cache = [f \in Files |-> NoFile]
    /\ socket_getaddrinfo = Unpatched
    /\ pc = "idle"
    /\ frame = NoFrame
    /\ gp = NoGp
    /\ result = NoResult
    /\ trace = <<>>
    /\ ncalls = 0
    /\ response = NoResponse
    /\ count = NoCount
    /\ entry0 = NoFile
    /\ pinned = {}
    /\ stored = {}
    /\ download = NoDownload

\* the caller assigns one attribute of the settings module between two calls
Configure(s) ==
    /\ pc = "idle"
    /\ download.state # "loop"
    /\ ncalls < MaxCalls
    /\ Cardinality({k \in DOMAIN s : s[k] # settings[k]}) = 1
    /\ settings' = s
    /\ ncalls' = ncalls + 1
    /\ frame' = NoFrame
    /\ result' = NoResult
    /\ trace' = <<>>
    /\ count' = NoCount
    /\ entry0' = NoFile
    /\ response' = NoResponse
    /\ gp' = NoGp
    /\ UNCHANGED <<cache, socket_getaddrinfo, pc, pinned, stored, download>>

---------------------------------------------------------------------------
(* Calls of the request functions *)

OverpassEndpointUrl == Url(settings.overpass_endpoint, "/api", "")

RateLimited_always == TRUE

\* the first test of _get_pause: with settings.overpass_rate_limit False it
\* returns 0 at once
RateLimited == settings.overpass_rate_limit

\* a request function is entered; query is the dict the caller of
\* _retrieve_osm_element gave (<<>> when the function is called directly)
BeginRequest(fn, url, query, pause, error_pause) ==
    /\ pc = "idle"
    /\ ncalls < MaxCalls
    /\ ncalls' = ncalls + 1
    /\ frame' = [NoFrame EXCEPT !.fn = fn, !.url = url, !.pause = pause,
                                !.error_pause = error_pause, !.query = query]
    /\ pc' = "enter"
    /\ result' = NoResult
    /\ trace' = <<>>
    /\ count' = NoCount
    /\ gp' = NoGp
    /\ entry0' = IF CacheFile(url) \in Files THEN cache[CacheFile(url)] ELSE NoFile
    /\ response' = NoResponse
    /\ UNCHANGED <<settings, cache, socket_getaddrinfo, pinned, stored>>

BeginCall(fn, url, pause, error_pause) == BeginRequest(fn, url, <<>>, pause, error_pause)

\* _overpass_request(data, pause, error_pause=60) is called
CallOverpass(q, pause) ==
    /\ BeginCall("_overpass_request",
                 Url(settings.overpass_endpoint, "/api/interpreter", q),
                 pause, DefaultErrorPause)
    /\ UNCHANGED download

\* _nominatim_request(params, "search", pause=1, error_pause=60) is called;
\* q is the query string of the URL prepared from params
CallNominatim(q) ==
    /\ BeginCall("_nominatim_request", Url(NominatimHost, "/search", q),
                 NominatimPause, DefaultErrorPause)
    /\ UNCHANGED download

\* _retrieve_osm_element(query) is called with a structured query
CallRetrieveOsmElement(query) ==
    /\ BeginRequest("_nominatim_request",
                    Url(NominatimHost, "/search", urlencode(Params(query))),
                    query, NominatimPause, DefaultErrorPause)
    /\ UNCHANGED download

\* _google_request(url, pause) is called
CallGoogle(q, pause) ==
    /\ BeginCall("_google_request", Url(GoogleHost, "/elevation", q), pause, 0)
    /\ UNCHANGED download

\* the call ends by raising exc
EndRaise(exc, events) ==
    /\ result' = Raise(exc)
    /\ trace' = trace \o events
    /\ pc' = "idle"
    /\ gp' = NoGp
    /\ UNCHANGED <<frame, count>>

\* the call ends by returning v, after `written` writes of the cache
EndReturn(v, events, written) ==
    /\ result' = Return(v)
    /\ trace' = trace \o events
    /\ pc' = "idle"
    /\ gp' = NoGp
    /\ count' = [count EXCEPT !.returns = @ + 1, !.writes = @ + written]
    /\ UNCHANGED frame

SleepThenSend_without_sleep(events, this_pause) ==
    /\ trace' = trace \o events
    /\ pc' = "send"
    /\ gp' = NoGp
    /\ UNCHANGED <<result, frame, count>>

\* the pause before the request is known: sleep, then send
SleepThenSend(events, this_pause) ==
    /\ trace' = trace \o events \o <<Ev("sleep", "pause", this_pause)>>
    /\ pc' = "send"
    /\ gp' = NoGp
    /\ UNCHANGED <<result, frame, count>>

\* the pause after a 429/504 is known: sleep, then call the function again
\* with the same arguments (the trace restarts with the new attempt)
SleepThenRetry(this_pause, got) ==
    /\ trace' = <<>>
    /\ pc' = "enter"
    /\ gp' = NoGp
    /\ frame' = [frame EXCEPT !.depth = @ + 1]
    /\ count' = [count EXCEPT !.errsleeps = @ + 1, !.retried = @ + got]
    /\ UNCHANGED result

\* _get_pause is entered with its default arguments
EnterGetPause(events, nextpc) ==
    /\ trace' = trace \o events
    /\ pc' = nextpc
    /\ gp' = [recursive_delay |-> DefaultRecursiveDelay,
              default_duration |-> DefaultDuration, busy |-> 0, answer |-> NoAnswer]
    /\ UNCHANGED <<result, frame>>

\* _overpass_request from its first line to the status poll (or its return)
OverpassEnter(sys, doh) ==
    /\ pc = "enter"
    /\ frame.fn = "_overpass_request"
    /\ LET dns == _config_dns(socket_getaddrinfo, OverpassEndpointUrl, sys, doh)
           cached_response_json == _retrieve_from_cache(cache, frame.url, 1)
       IN IF dns.exc # ""
          THEN /\ EndRaise(dns.exc, dns.ev)
               /\ UNCHANGED <<socket_getaddrinfo, pinned>>
          ELSE /\ socket_getaddrinfo' = dns.g
               /\ pinned' = pinned \cup {dns.g.hostname}
               /\ IF cached_response_json # None
                  THEN EndReturn(cached_response_json, dns.ev, 0)
                  ELSE IF frame.pause # PauseNone
                  THEN EndRaise("UnboundLocalError", dns.ev)
                  ELSE IF ~RateLimited
                  THEN SleepThenSend(dns.ev, 0)
                  ELSE EnterGetPause(dns.ev, "get_pause") /\ UNCHANGED count
    /\ UNCHANGED <<settings, cache, ncalls, entry0, response, stored, download>>

\* _nominatim_request and _google_request from their first line to the request
GetEnter ==
    /\ pc = "enter"
    /\ frame.fn \in {"_nominatim_request", "_google_request"}
    /\ LET cached_response_json == _retrieve_from_cache(cache, frame.url, 1)
       IN IF cached_response_json # None
          THEN EndReturn(cached_response_json, <<>>, 0)
          ELSE SleepThenSend(<<>>, frame.pause)
    /\ UNCHANGED <<settings, cache, socket_getaddrinfo, ncalls, entry0, pinned,
                   response, stored, download>>

\* one poll of the status endpoint by _get_pause; gp keeps the answer until
\* the caller's next step
GetPausePoll(ip, answer) ==
    /\ pc \in {"get_pause", "err_get_pause"}
    /\ LET ans == IF ip = gaierror THEN [exc |-> "ConnectionError", lines |-> <<>>]
                  ELSE answer
           p == _get_pause(ans, gp.recursive_delay, gp.default_duration)
           ev == <<Ev("status", p.kind, p.n)>>
       IN /\ p.kind = "recurse" => gp.busy < MaxBusy
          /\ CASE p.kind = "raise" ->
                    /\ result' = Raise(p.exc)
                    /\ trace' = trace \o ev
                    /\ pc' = "idle"
                    /\ gp' = [gp EXCEPT !.answer = ans]
                    /\ UNCHANGED <<frame, count>>
               [] p.kind = "recurse" ->
                    /\ trace' = trace \o ev \o <<Ev("sleep", "recursive", gp.recursive_delay)>>
                    /\ gp' = [recursive_delay |-> DefaultRecursiveDelay,
                              default_duration |-> DefaultDuration,
                              busy |-> gp.busy + 1, answer |-> NoAnswer]
                    /\ UNCHANGED <<pc, result, frame, count>>
               [] OTHER ->
                    IF frame.fn = "_get_pause"
                    THEN /\ result' = Return(None)
                         /\ trace' = trace \o ev \o <<Ev("return", "pause", p.n)>>
                         /\ pc' = "idle"
                         /\ gp' = [gp EXCEPT !.answer = ans]
                         /\ UNCHANGED <<frame, count>>
                    ELSE IF pc = "get_pause"
                    THEN /\ trace' = trace \o ev \o <<Ev("sleep", "pause", p.n)>>
                         /\ pc' = "send"
                         /\ gp' = [gp EXCEPT !.answer = ans]
                         /\ UNCHANGED <<result, frame, count>>
                    ELSE SleepThenRetry(frame.error_pause + p.n, 0)
    /\ UNCHANGED <<settings, cache, socket_getaddrinfo, ncalls, entry0, pinned,
                   response, stored, download>>

\* the response is parsed, saved and returned (the last three lines of each
\* request function)
ParseSaveReturn(ev, resp) ==
    LET parsed == _parse_response(resp)
    IN IF parsed.exc # ""
       THEN EndRaise(parsed.exc, ev) /\ UNCHANGED <<cache, stored>>
       ELSE /\ cache' = _save_to_cache(cache, frame.url, parsed.json, resp.status_code)
            /\ IF WillSave(parsed.json, resp.status_code)
               THEN /\ EndReturn(parsed.json, ev \o <<Ev("write", "cache", 0)>>, 1)
                    /\ stored' = stored \cup {frame.url}
               ELSE /\ EndReturn(parsed.json, ev, 0)
                    /\ UNCHANGED stored

Retries_never(fn, status_code) == FALSE

Retries_every_flavor(fn, status_code) == status_code \in {429, 504}

\* the response is answered by a sleep and a recursive call: the test on the
\* status code in _overpass_request and _nominatim_request, which
\* _google_request does not have
Retries(fn, status_code) ==
    fn \in {"_overpass_request", "_nominatim_request"} /\ status_code \in {429, 504}

\* the HTTP exchange of a request function and what follows it
Send(ip, resp) ==
    /\ pc = "send"
    /\ LET method == IF frame.fn = "_overpass_request" THEN "POST" ELSE "GET"
           ev == <<Ev(method, "response", resp.status_code)>>
           retried == Retries(frame.fn, resp.status_code)
       IN IF ip = gaierror
          THEN /\ EndRaise("ConnectionError", <<Ev(method, "ConnectionError", 0)>>)
               /\ UNCHANGED <<cache, stored, response>>
          ELSE IF retried
          THEN /\ frame.depth < MaxRetries
               /\ UNCHANGED <<cache, stored, response>>
               /\ IF frame.fn = "_nominatim_request"
                  THEN SleepThenRetry(frame.error_pause, 1)
                  ELSE IF ~RateLimited
                  THEN SleepThenRetry(frame.error_pause + 0, 1)
                  ELSE /\ EnterGetPause(ev, "err_get_pause")
                       /\ count' = [count EXCEPT !.retried = @ + 1]
          ELSE /\ response' = resp
               /\ ParseSaveReturn(ev, resp)
    /\ UNCHANGED <<settings, socket_getaddrinfo, ncalls, entry0, pinned, download>>

---------------------------------------------------------------------------
(* Calls of the cache functions and of socket.getaddrinfo *)

BeginDirect(fn, url, json, flag) ==
    /\ pc = "idle"
    /\ ncalls < MaxCalls
    /\ ncalls' = ncalls + 1
    /\ frame' = [NoFrame EXCEPT !.fn = fn, !.url = url, !.json = json, !.flag = flag]
    /\ entry0' = IF CacheFile(url) \in Files THEN cache[CacheFile(url)] ELSE NoFile
    /\ count' = NoCount
    /\ response' = NoResponse
    /\ gp' = NoGp
    /\ UNCHANGED <<settings, pc, download>>

\* _save_to_cache(url, response_json, ok) is called
CallSaveToCache(url, response_json, ok) ==
    /\ BeginDirect("_save_to_cache", url, response_json, ok)
    /\ cache' = _save_to_cache(cache, url, response_json, ok)
    /\ result' = Return(None)
    /\ trace' = IF WillSave(response_json, ok) THEN <<Ev("write", "cache", 0)>> ELSE <<>>
    /\ stored' = IF WillSave(response_json, ok) THEN stored \cup {url} ELSE stored
    /\ UNCHANGED <<socket_getaddrinfo, pinned>>

\* _retrieve_from_cache(url, check_remark) is called
CallRetrieveFromCache(url, check_remark) ==
    /\ BeginDirect("_retrieve_from_cache", url, None, check_remark)
    /\ result' = Return(_retrieve_from_cache(cache, url, check_remark))
    /\ trace' = <<>>
    /\ UNCHANGED <<cache, socket_getaddrinfo, stored, pinned>>

\* socket.getaddrinfo(host, ...) is called somewhere in the process while the
\* system resolver would answer sys
CallGetaddrinfo(host, sys) ==
    /\ BeginDirect("getaddrinfo", Url(host, "", ""), None, 0)
    /\ result' = [kind |-> "addr", json |-> None,
                  str |-> _getaddrinfo(socket_getaddrinfo, host, sys)]
    /\ trace' = <<Ev("system", sys, 0)>>
    /\ UNCHANGED <<cache, socket_getaddrinfo, stored, pinned>>

\* _config_dns(url) is called
CallConfigDns(url, sys, doh) ==
    /\ BeginDirect("_config_dns", url, None, 0)
    /\ LET dns == _config_dns(socket_getaddrinfo, url, sys, doh)
       IN /\ trace' = dns.ev
          /\ IF dns.exc # ""
             THEN /\ result' = Raise(dns.exc)
                  /\ UNCHANGED <<socket_getaddrinfo, pinned>>
             ELSE /\ result' = Return(None)
                  /\ socket_getaddrinfo' = dns.g
                  /\ pinned' = pinned \cup {dns.g.hostname}
    /\ UNCHANGED <<cache, stored>>

\* the arguments _get_pause is called with: its defaults, and others
GetPauseArgs ==
    {[recursive_delay |-> DefaultRecursiveDelay, default_duration |-> DefaultDuration],
     [recursive_delay |-> 7, default_duration |-> 9]}

\* _get_pause(settings.overpass_endpoint, recursive_delay, default_duration)
\* is called; the pause it returns is the event "return"
CallGetPause(recursive_delay, default_duration) ==
    /\ pc = "idle"
    /\ ncalls < MaxCalls
    /\ ncalls' = ncalls + 1
    /\ frame' = [NoFrame EXCEPT !.fn = "_get_pause", !.url = OverpassEndpointUrl,
                                !.recursive_delay = recursive_delay,
                                !.default_duration = default_duration]
    /\ entry0' = NoFile
    /\ count' = NoCount
    /\ response' = NoResponse
    /\ IF ~RateLimited
       THEN /\ result' = Return(None)
            /\ trace' = <<Ev("return", "pause", 0)>>
            /\ gp' = NoGp
            /\ UNCHANGED pc
       ELSE /\ result' = NoResult
            /\ trace' = <<>>
            /\ gp' = [recursive_delay |-> recursive_delay,
                      default_duration |-> default_duration,
                      busy |-> 0, answer |-> NoAnswer]
            /\ pc' = "get_pause"
    /\ UNCHANGED <<settings, cache, socket_getaddrinfo, pinned, stored, download>>

---------------------------------------------------------------------------
(* _osm_features_download: one Overpass request per sub-polygon *)

append_in_front(list, x) == <<x>> \o list

\* list.append
append(list, x) == Append(list, x)

\* the body of the loop begins for the next sub-polygon of download d:
\* _overpass_request(data={"data": query_str}) is called
DownloadRequest(d) ==
    /\ BeginCall("_overpass_request",
                 Url(settings.overpass_endpoint, "/api/interpreter",
                     _create_overpass_query(d.polygon_coord_strs[d.issued + 1])),
                 PauseNone, DefaultErrorPause)
    /\ download' = [d EXCEPT !.issued = @ + 1]

\* _osm_features_download(polygon, tags) is called and reaches its first
\* sub-request
CallFeaturesDownload(polygon_coord_strs) ==
    /\ download.state # "loop"
    /\ ncalls + Len(polygon_coord_strs) <= MaxCalls
    /\ DownloadRequest([NoDownload EXCEPT !.state = "loop",
                                         !.polygon_coord_strs = polygon_coord_strs])

\* the sub-request has ended: its exception leaves the download, or its body
\* is appended and the loop goes on to the next sub-polygon or the list is
\* returned
DownloadResume ==
    /\ download.state = "loop"
    /\ pc = "idle"
    /\ IF result.kind = "raise"
       THEN /\ download' = [download EXCEPT !.state = "raised"]
            /\ UNCHANGED <<settings, cache, socket_getaddrinfo, pc, frame, gp, result,
                           trace, ncalls, response, count, entry0, pinned, stored>>
       ELSE LET d == [download EXCEPT
                          !.response_jsons = append(@, result.json),
                          !.done = Append(@, [url |-> frame.url, json |-> result.json])]
            IN IF d.issued < Len(d.polygon_coord_strs)
               THEN DownloadRequest(d)
               ELSE /\ download' = [d EXCEPT !.state = "returned",
                                             !.value = d.response_jsons]
                    /\ UNCHANGED <<settings, cache, socket_getaddrinfo, pc, frame, gp,
                                   result, trace, ncalls, response, count, entry0,
                                   pinned, stored>>

---------------------------------------------------------------------------

Next ==
    \/ \E s \in Settings : Configure(s)
    \/ \E q \in Queries, pause \in {PauseNone, 2} : CallOverpass(q, pause)
    \/ \E q \in NominatimQueries : CallNominatim(q)
    \/ \E query \in QueryDicts : CallRetrieveOsmElement(query)
    \/ \E q \in Queries : CallGoogle(q, 0)
    \/ \E sys \in SysAnswers : \E doh \in DohAnswersAfter(sys) : OverpassEnter(sys, doh)
    \/ GetEnter
    \/ \E ip \in Resolutions(socket_getaddrinfo, settings.overpass_endpoint) :
          \E answer \in StatusAnswers : GetPausePoll(ip, answer)
    \/ \E ip \in Resolutions(socket_getaddrinfo, _hostname_from_url(frame.url)) :
          \E resp \in Responses : Send(ip, resp)
    \/ \E url \in Urls, response_json \in Json, ok \in {0, 1} :
          CallSaveToCache(url, response_json, ok)
    \/ \E url \in Urls, check_remark \in {0, 1} : CallRetrieveFromCache(url, check_remark)
    \/ \E host \in Hosts, sys \in SysAnswers : CallGetaddrinfo(host, sys)
    \/ \E host \in OverpassHosts, sys \in SysAnswers : \E doh \in DohAnswersAfter(sys) :
          CallConfigDns(Url(host, "/api", ""), sys, doh)
    \/ \E a \in GetPauseArgs : CallGetPause(a.recursive_delay, a.default_duration)

Spec == Init /\ [][Next]_vars

\* the program as a caller of _osm_features_download runs it
NextDownload ==
    \/ \E s \in Settings : Configure(s)
    \/ \E polygon_coord_strs \in PolygonLists : CallFeaturesDownload(polygon_coord_strs)
    \/ DownloadResume
    \/ \E sys \in SysAnswers : \E doh \in DohAnswersAfter(sys) : OverpassEnter(sys, doh)
    \/ \E ip \in Resolutions(socket_getaddrinfo, settings.overpass_endpoint) :
          \E answer \in StatusAnswers : GetPausePoll(ip, answer)
    \/ \E ip \in Resolutions(socket_getaddrinfo, _hostname_from_url(frame.url)) :
          \E resp \in Responses : Send(ip, resp)

SpecDownload == Init /\ [][NextDownload]_vars

\* the cache folder as an earlier process may have left it: empty, or with
\* the file of one URL
DiskCaches ==
    {[f \in Files |-> NoFile]}
        \cup {[f \in Files |-> IF f = CacheFile(u) THEN dumps(v) ELSE NoFile] :
                  u \in Urls, v \in {JDict(FALSE, 1), JDict(TRUE, 1)}}

\* a process that has set settings.use_cache to False before its first call
InitCacheOff ==
    /\ settings = [use_cache |-> FALSE, overpass_rate_limit |-> TRUE,
                   doh_url_template |-> "https://dns.google/resolve?name={hostname}",
                   overpass_endpoint |-> "overpass-a"]
    /\ cache \in DiskCaches
    /\ socket_getaddrinfo = Unpatched
    /\ pc = "idle"
    /\ frame = NoFrame
    /\ gp = NoGp
    /\ result = NoResult
    /\ trace = <<>>
    /\ ncalls = 0
    /\ response = NoResponse
    /\ count = NoCount
    /\ entry0 = NoFile
    /\ pinned = {}
    /\ stored = {}
    /\ download = NoDownload

\* what such a process does: it changes other settings, makes requests and
\* calls the cache functions
NextCacheOff ==
    \/ \E s \in Settings : ~s.use_cache /\ Configure(s)
    \/ \E q \in Queries, pause \in {PauseNone, 2} : CallOverpass(q, pause)
    \/ \E q \in NominatimQueries : CallNominatim(q)
    \/ \E query \in QueryDicts : CallRetrieveOsmElement(query)
    \/ \E q \in Queries : CallGoogle(q, 0)
    \/ \E sys \in SysAnswers : \E doh \in DohAnswersAfter(sys) : OverpassEnter(sys, doh)
    \/ GetEnter
    \/ \E ip \in Resolutions(socket_getaddrinfo, settings.overpass_endpoint) :
          \E answer \in StatusAnswers : GetPausePoll(ip, answer)
    \/ \E ip \in Resolutions(socket_getaddrinfo, _hostname_from_url(frame.url)) :
          \E resp \in Responses : Send(ip, resp)
    \/ \E url \in Urls, response_json \in Json, ok \in {0, 1} :
          CallSaveToCache(url, response_json, ok)
    \/ \E url \in Urls, check_remark \in {0, 1} : CallRetrieveFromCache(url, check_remark)

SpecCacheOff == InitCacheOff /\ [][NextCacheOff]_vars

\* the next step of the running call: the interpreter goes on, and every
\* name resolution, status poll and HTTP exchange ends with an answer or an
\* exception (the requests carry settings.timeout)
RequestStep ==
    \/ \E sys \in SysAnswers : \E doh \in DohAnswersAfter(sys) : OverpassEnter(sys, doh)
    \/ GetEnter
    \/ \E ip \in Resolutions(socket_getaddrinfo, settings.overpass_endpoint) :
          \E answer \in StatusAnswers : GetPausePoll(ip, answer)
    \/ \E ip \in Resolutions(socket_getaddrinfo, _hostname_from_url(frame.url)) :
          \E resp \in Responses : Send(ip, resp)

\* the program as a caller of the Overpass and Nominatim request functions
\* runs it
NextLive ==
    \/ \E s \in Settings : Configure(s)
    \/ \E q \in Queries, pause \in {PauseNone, 2} : CallOverpass(q, pause)
    \/ \E q \in NominatimQueries : CallNominatim(q)
    \/ RequestStep

\* a running call is not abandoned; the service answers 429/504 at most
\* MaxRetries times and "Currently" at most MaxBusy times per poll
SpecLive == Init /\ [][NextLive]_vars /\ WF_vars(RequestStep)

---------------------------------------------------------------------------
(* Properties *)

RequestFns == {"_overpass_request", "_nominatim_request", "_google_request"}

\* the events of the running attempt that satisfy a test on their kind
EventsOf(kinds) == {i \in DOMAIN trace : trace[i].e \in kinds}

\* the attempt's events without the name resolution of _config_dns
IsWork(ev) == ev.e # "gethostbyname" /\ ~(ev.e = "GET" /\ ev.a = "doh")
Work == SelectSeq(trace, IsWork)

\* the call began with a servable cache entry for its URL
CacheHitAtCall ==
    /\ frame.fn \in RequestFns
    /\ settings.use_cache
    /\ entry0 # NoFile
    /\ ~InRemark(loads(entry0))

\* the step about to be taken by an Overpass attempt is its _config_dns call
PinStep == pc = "enter" /\ frame.fn = "_overpass_request"

\* the step taken is a direct call of _config_dns
DirectPin == pc = "idle" /\ ncalls' # ncalls /\ frame'.fn = "_config_dns"

\* the call returned its value from the cache: no response was received
ReturnedFromCache ==
    /\ pc = "idle"
    /\ frame.fn \in RequestFns
    /\ result.kind = "return"
    /\ response = NoResponse

\* C1 (as stated): with caching enabled, a request whose URL has a stored
\* body without remark returns that body and issues no status poll, no HTTP
\* request, no sleep and no cache write, in every flavor.
C1_Original ==
    CacheHitAtCall =>
        /\ pc \in {"enter", "idle"}
        /\ EventsOf({"status", "GET", "POST", "sleep", "write"}) = {}
        /\ count.writes = 0
        /\ cache[CacheFile(frame.url)] = entry0
        /\ pc = "idle" => result = Return(loads(entry0))

\* C1 (amended): such a request issues no status poll, no request to the
\* service, no sleep and no cache write; Nominatim and Elevation requests do
\* nothing but return the stored body; an Overpass request first pins the
\* host (one gethostbyname and, when that fails and DoH is enabled, one GET to
\* the DoH server) and then returns the stored body, or raises KeyError when
\* the DoH answer is malformed.
C1_CacheHit ==
    CacheHitAtCall =>
        /\ pc \in {"enter", "idle"}
        /\ EventsOf({"status", "POST", "sleep", "write"}) = {}
        /\ \A i \in EventsOf({"GET"}) :
              trace[i].a = "doh" /\ frame.fn = "_overpass_request"
        /\ frame.fn # "_overpass_request" => trace = <<>>
        /\ count.writes = 0
        /\ cache[CacheFile(frame.url)] = entry0
        /\ pc = "idle" =>
              \/ result = Return(loads(entry0))
              \/ frame.fn = "_overpass_request" /\ result = Raise("KeyError")

C1_Witness ==
    /\ CacheHitAtCall
    /\ pc = "idle"
    /\ frame.fn = "_overpass_request"
    /\ result = Return(loads(entry0))

\* what C2 promises of the finished call
C2_Outcome ==
    /\ Len(Work) = 4
    /\ Work[1].e = "status" /\ Work[1].a = "return"
    /\ Work[2] = Ev("sleep", "pause", Work[1].n)
    /\ Work[3] = Ev("POST", "response", response.status_code)
    /\ Work[4] = Ev("write", "cache", 0)
    /\ count.writes = 1
    /\ cache[CacheFile(frame.url)] = dumps(loads(response.text))
    /\ result = Return(loads(response.text))

C2_Case ==
    /\ pc = "idle"
    /\ frame.fn = "_overpass_request"
    /\ frame.pause = PauseNone
    /\ settings.use_cache
    /\ settings.overpass_rate_limit
    /\ entry0 = NoFile
    /\ count.retried = 0
    /\ response # NoResponse
    /\ ResponseOk(response)
    /\ IsJsonText(response.text)

\* C2 (as stated): caching and rate limiting enabled, no caller pause, no
\* cache entry, first response a success with JSON: one status poll, one
\* sleep of the pause polled, one POST, one cache write, in this order, and
\* the parsed JSON is returned.
C2_Original == C2_Case => C2_Outcome

\* C2 (amended): the same when the status endpoint does not answer
\* "Currently" (each such answer adds a sleep and another poll).
C2_OnePoll ==
    (C2_Case /\ \A i \in EventsOf({"status"}) : trace[i].a # "recurse") => C2_Outcome

C2_Witness ==
    /\ C2_Case
    /\ Len(Work) = 4
    /\ Work[2] = Ev("sleep", "pause", 2)
    /\ result = Return(JDict(FALSE, 1))

C3_Case ==
    /\ pc = "idle"
    /\ frame.fn \in {"_overpass_request", "_nominatim_request"}
    /\ response # NoResponse
    /\ ResponseOk(response)
    /\ IsJsonText(response.text)

\* C3 (as stated): after n answers 429/504 and then a success, an Overpass or
\* Nominatim request has slept n error pauses, returns the parsed final body
\* once and has written the cache once.
C3_Original ==
    C3_Case =>
        /\ count.errsleeps = count.retried
        /\ count.returns = 1
        /\ result = Return(loads(response.text))
        /\ count.writes = 1

\* C3 (amended): the cache is written once when caching is enabled, and not
\* at all when it is disabled.
C3_Backoff ==
    C3_Case =>
        /\ count.errsleeps = count.retried
        /\ count.returns = 1
        /\ result = Return(loads(response.text))
        /\ count.writes = IF settings.use_cache THEN 1 ELSE 0

C3_Witness ==
    /\ C3_Case
    /\ settings.use_cache
    /\ count.retried = 2
    /\ count.errsleeps = 2
    /\ count.writes = 1

\* C4 (as stated): the body of a response whose status indicated failure is
\* never written to the cache.
C4_Original ==
    (pc = "idle" /\ frame.fn \in RequestFns /\ response # NoResponse
        /\ ~ResponseOk(response))
    => (count.writes = 0 /\ cache[CacheFile(frame.url)] = entry0)

\* C5 (as stated): an Overpass request with a caller pause p and no cache
\* entry polls no status, sleeps p before the POST and returns the parsed body.
C5_Original ==
    (pc = "idle" /\ frame.fn = "_overpass_request" /\ frame.pause # PauseNone
        /\ entry0 = NoFile /\ result # Raise("KeyError"))
    => /\ EventsOf({"status"}) = {}
       /\ \E i, j \in DOMAIN trace :
             /\ i < j
             /\ trace[i] = Ev("sleep", "pause", frame.pause)
             /\ trace[j].e = "POST"
       /\ (response # NoResponse /\ IsJsonText(response.text))
             => result = Return(loads(response.text))

GethostbynameCalls(t) == Cardinality({i \in DOMAIN t : t[i].e = "gethostbyname"})

\* C6 (as stated): a pin of a hostname that is already pinned resolves
\* nothing and leaves the override unchanged.
C6_Original ==
    [][(PinStep /\ socket_getaddrinfo.hostname = settings.overpass_endpoint)
          => (socket_getaddrinfo' = socket_getaddrinfo /\ GethostbynameCalls(trace') = 0)]_vars

\* C6 (amended): every pin, also of a hostname already pinned, performs
\* exactly one system resolution call and, unless the DoH fallback raises,
\* installs the override anew with the address just obtained.
C6_EveryPinResolves ==
    [][PinStep =>
          /\ GethostbynameCalls(trace') = 1
          /\ trace'[1] = Ev("gethostbyname", settings.overpass_endpoint, 0)
          /\ result' # Raise("KeyError") =>
                /\ socket_getaddrinfo'.hostname = settings.overpass_endpoint
                /\ socket_getaddrinfo'.ip \in IPs \cup {settings.overpass_endpoint}
                /\ \A sys \in IPs :
                      trace' = <<Ev("gethostbyname", settings.overpass_endpoint, 0)>>
                      /\ socket_getaddrinfo'.ip = sys
                      => socket_getaddrinfo' =
                            [hostname |-> settings.overpass_endpoint, ip |-> sys]]_vars

C6_Witness ==
    /\ frame.fn = "_overpass_request"
    /\ count.errsleeps >= 1
    /\ pc = "get_pause"
    /\ GethostbynameCalls(trace) = 1
    /\ socket_getaddrinfo.hostname = settings.overpass_endpoint

\* every resolution of the pinned hostname gives the pinned IP in this state
PinnedResolves(g, hostname, ip) ==
    \A sys \in SysAnswers : _getaddrinfo(g, hostname, sys) = ip

\* C7 (as stated): once a hostname is pinned to an IP, every later resolution
\* of it returns that IP, over any later requests and retries.
C7_Original ==
    [][socket_getaddrinfo.ip \in IPs =>
          PinnedResolves(socket_getaddrinfo', socket_getaddrinfo.hostname,
                         socket_getaddrinfo.ip)]_vars

\* C7 (amended): a hostname pinned to an IP resolves to that IP, whatever the
\* system resolver would answer, until the next pin: every attempt of an
\* Overpass request, like every call of _config_dns, pins again and may
\* install another address.
C7_UntilNextPin ==
    /\ [](socket_getaddrinfo.ip \in IPs =>
            /\ PinnedResolves(socket_getaddrinfo, socket_getaddrinfo.hostname,
                              socket_getaddrinfo.ip)
            /\ (result.kind = "addr" /\ frame.url[1] = socket_getaddrinfo.hostname)
                  => result.str = socket_getaddrinfo.ip)
    /\ [][(socket_getaddrinfo.ip \in IPs /\ ~PinStep /\ ~DirectPin) =>
            PinnedResolves(socket_getaddrinfo', socket_getaddrinfo.hostname,
                           socket_getaddrinfo.ip)]_vars

C7_Witness ==
    /\ result.kind = "addr"
    /\ socket_getaddrinfo.ip \in IPs
    /\ frame.url[1] = socket_getaddrinfo.hostname
    /\ trace[1].a # socket_getaddrinfo.ip
    /\ result.str = socket_getaddrinfo.ip

\* C8: a hostname that was never pinned resolves to what the original system
\* resolver answers, whatever has been pinned.
C8_OthersUnaffected ==
    /\ \A h \in Hosts \ pinned : \A sys \in SysAnswers :
          _getaddrinfo(socket_getaddrinfo, h, sys) = _original_getaddrinfo(h, sys)
    /\ (result.kind = "addr" /\ frame.url[1] \notin pinned)
          => result.str = _original_getaddrinfo(frame.url[1], trace[1].a)

C8_Witness ==
    /\ result.kind = "addr"
    /\ frame.url[1] \notin pinned
    /\ socket_getaddrinfo.ip \in IPs
    /\ result.str \in IPs
    /\ result.str # socket_getaddrinfo.ip

\* the URLs whose cache file holds a body with a remark
RemarkUrls == {u \in Urls : cache[CacheFile(u)] # NoFile /\ InRemark(loads(cache[CacheFile(u)]))}

\* what C9 says of the request pipeline: nothing with a remark is returned
\* from the cache, and a call that began on a remark entry went to the network
C9_Pipeline ==
    /\ ReturnedFromCache => ~InRemark(result.json)
    /\ (pc = "idle" /\ frame.fn \in RequestFns /\ result.kind = "return"
          /\ entry0 # NoFile /\ InRemark(loads(entry0)))
       => response # NoResponse

\* C9 (as stated): a cached body with a remark is absent for a strict lookup
\* and returned by a relaxed lookup.
C9_Original ==
    /\ \A u \in RemarkUrls :
          /\ _retrieve_from_cache(cache, u, 1) = None
          /\ _retrieve_from_cache(cache, u, 0) = loads(cache[CacheFile(u)])
    /\ C9_Pipeline

\* C9 (amended): the relaxed lookup returns it when caching is enabled; with
\* caching disabled every lookup reports absent.
C9_RemarkSuppressed ==
    /\ \A u \in RemarkUrls :
          /\ _retrieve_from_cache(cache, u, 1) = None
          /\ _retrieve_from_cache(cache, u, 0) =
                IF settings.use_cache THEN loads(cache[CacheFile(u)]) ELSE None
    /\ (frame.fn = "_retrieve_from_cache" /\ frame.url \in RemarkUrls) =>
          result = Return(IF frame.flag = 0 /\ settings.use_cache
                          THEN loads(entry0) ELSE None)
    /\ C9_Pipeline

C9_Witness ==
    /\ frame.fn = "_retrieve_from_cache"
    /\ frame.url \in RemarkUrls
    /\ frame.flag = 0
    /\ result = Return(JDict(TRUE, 1))

\* C10: with caching enabled, right after _save_to_cache(U, B, ok) with B not
\* None and without remark and ok true, a lookup of U gives B; a lookup of a
\* URL never stored gives None.
C10_RoundTrip ==
    /\ (frame.fn = "_save_to_cache" /\ settings.use_cache /\ frame.flag # 0
          /\ frame.json # None /\ ~InRemark(frame.json))
       => /\ _retrieve_from_cache(cache, frame.url, 1) = frame.json
          /\ _retrieve_from_cache(cache, frame.url, 0) = frame.json
    /\ \A u \in Urls \ stored :
          /\ _retrieve_from_cache(cache, u, 1) = None
          /\ _retrieve_from_cache(cache, u, 0) = None

C10_Witness ==
    /\ frame.fn = "_save_to_cache"
    /\ settings.use_cache
    /\ frame.flag # 0
    /\ frame.json = JDict(FALSE, 1)
    /\ _retrieve_from_cache(cache, frame.url, 1) = JDict(FALSE, 1)
    /\ stored # Urls

\* the last poll of the status endpoint ended the _get_pause call that made
\* it, by a pause (slept by the request, or returned to the direct caller) or
\* by an exception
Polled == gp.answer # NoAnswer
PauseReturned ==
    /\ Polled
    /\ \/ pc = "send" /\ frame.fn = "_overpass_request"
       \/ pc = "idle" /\ frame.fn = "_get_pause" /\ result.kind = "return"
PolledPause == trace[Len(trace)].n
\* the fifth line of the status text polled, when there is one
HasStatusLine == gp.answer.exc = "" /\ Len(gp.answer.lines) >= 5
StatusLine == gp.answer.lines[5]

IsFallback(answer) ==
    \/ answer.exc = "ConnectionError"
    \/ answer.exc = "" /\ Len(answer.lines) < 5
    \/ /\ answer.exc = ""
       /\ Len(answer.lines) >= 5
       /\ answer.lines[5][1].s \notin {"0", "1", "2", "3", "4", "Slot", "Currently"}

\* the outcomes of a poll whose exception escapes from _get_pause
EscapingError(answer) ==
    IF answer.exc = "ReadTimeout" THEN "ReadTimeout"
    ELSE IF answer.exc = "" /\ Len(answer.lines) >= 5 /\ answer.lines[5][1].s = "Slot"
    THEN IF Len(answer.lines[5]) < 4 THEN "IndexError"
         ELSE IF answer.lines[5][4].s # TimePattern THEN "ValueError"
         ELSE ""
    ELSE ""

\* C12 (as stated): a connection failure, a timeout, a short body, an
\* unrecognised first token and a "Slot" line with a missing or malformed
\* timestamp all make _get_pause return default_duration.
C12_Original ==
    (Polled /\ (IsFallback(gp.answer) \/ EscapingError(gp.answer) # ""))
    => (PauseReturned /\ PolledPause = gp.default_duration)

\* C13: with rate limiting disabled _get_pause returns 0 without a status
\* request and without a sleep; an Overpass request without caller pause
\* polls no status and sleeps 0 right before its POST.
C13_RateLimitOff ==
    (~settings.overpass_rate_limit /\ frame.fn \in {"_overpass_request", "_get_pause"}) =>
        /\ pc \notin {"get_pause", "err_get_pause"}
        /\ EventsOf({"status"}) = {}
        /\ frame.fn = "_get_pause" => trace = <<Ev("return", "pause", 0)>>
        /\ (frame.fn = "_overpass_request" /\ frame.pause = PauseNone) =>
              /\ \A i \in EventsOf({"sleep"}) : trace[i] = Ev("sleep", "pause", 0)
              /\ \A i \in EventsOf({"POST"}) :
                    i > 1 /\ trace[i - 1] = Ev("sleep", "pause", 0)
              /\ pc = "send" => trace[Len(trace)] = Ev("sleep", "pause", 0)

C13_Witness ==
    /\ ~settings.overpass_rate_limit
    /\ frame.fn = "_overpass_request"
    /\ frame.pause = PauseNone
    /\ pc = "idle"
    /\ result.kind = "return"
    /\ response # NoResponse
    /\ EventsOf({"POST"}) # {}

\* C14 (as stated): in every flavor a response with status 429 or 504 is not
\* handed to the parser.
C14_Original ==
    frame.fn \in RequestFns => response.status_code \notin {429, 504}

\* C14 (amended): in the Overpass and Nominatim flavors a 429/504 response
\* is not parsed, not written to the cache and not surfaced; each one is
\* followed by one error sleep and a new attempt of the same request.  The
\* Elevation flavor does not retry: the 429/504 response goes to the parser
\* and its body or the parser's error reaches the caller.
C14_RetryFlavors ==
    frame.fn \in RequestFns =>
        /\ frame.fn # "_google_request" => response.status_code \notin {429, 504}
        /\ frame.fn = "_google_request" => (count.retried = 0 /\ count.errsleeps = 0)
        /\ pc # "idle" =>
              /\ result = NoResult
              /\ count.writes = 0 /\ count.returns = 0
              /\ cache[CacheFile(frame.url)] = entry0
        /\ pc \in {"enter", "send", "get_pause"} =>
              (count.errsleeps = count.retried /\ frame.depth = count.retried)
        /\ pc = "err_get_pause" => count.retried = count.errsleeps + 1
        /\ (frame.fn = "_google_request" /\ response.status_code \in {429, 504}) =>
              /\ pc = "idle"
              /\ result = IF IsJsonText(response.text)
                          THEN Return(loads(response.text))
                          ELSE Raise("ResponseStatusCodeError")

C14_Witness ==
    /\ frame.fn = "_nominatim_request"
    /\ pc = "idle"
    /\ count.retried = 1
    /\ count.errsleeps = 1
    /\ response.status_code = 200
    /\ result = Return(loads(response.text))

\* C15: a response with a status other than 429/504 whose body is not JSON
\* ends the request with InsufficientResponseError when the status is a
\* success and ResponseStatusCodeError when it is a failure; nothing follows
\* the response in the attempt and the cache file of the URL is unchanged.
C15_NotJson ==
    (pc = "idle" /\ frame.fn \in RequestFns /\ response # NoResponse
        /\ ~IsJsonText(response.text) /\ response.status_code \notin {429, 504})
    => /\ result = Raise(IF response.status_code < 400
                         THEN "InsufficientResponseError"
                         ELSE "ResponseStatusCodeError")
       /\ count.writes = 0
       /\ count.returns = 0
       /\ cache[CacheFile(frame.url)] = entry0
       /\ trace[Len(trace)] =
             Ev(IF frame.fn = "_overpass_request" THEN "POST" ELSE "GET",
                "response", response.status_code)
       /\ Cardinality({i \in EventsOf({"GET", "POST"}) : trace[i].a = "response"}) = 1

C15_Witness ==
    /\ pc = "idle"
    /\ frame.fn = "_overpass_request"
    /\ response = [status_code |-> 404, text |-> NotJson]
    /\ result = Raise("ResponseStatusCodeError")

\* the URL _retrieve_osm_element prepares for a structured query
QueryUrl(query) == Url(NominatimHost, "/search", urlencode(Params(query)))

\* two dicts with the same keys (and values), whatever their insertion order
SameDict(q1, q2) ==
    {q1[i] : i \in DOMAIN q1} = {q2[i] : i \in DOMAIN q2} /\ Len(q1) = Len(q2)

\* the cache file of a structured query does not depend on its insertion order
SameDictSameFile ==
    \A q1, q2 \in QueryDicts :
        SameDict(q1, q2) => CacheFile(QueryUrl(q1)) = CacheFile(QueryUrl(q2))

\* C16: two geocoding lookups with the same structured query have the same
\* cache key whatever the insertion order of the query, so a lookup finds the
\* entry an earlier one stored; the file of an entry is named by the prepared
\* URL alone, so every URL stored is found under the key of that URL.
C16_KeyDeterminism ==
    /\ SameDictSameFile
    /\ (frame.fn = "_nominatim_request" /\ frame.query # <<>>) =>
          /\ \A q \in QueryDicts : SameDict(q, frame.query) => frame.url = QueryUrl(q)
          /\ (pc = "idle" /\ settings.use_cache /\ frame.url \in stored
                /\ entry0 # NoFile /\ ~InRemark(loads(entry0)))
             => (ReturnedFromCache /\ result = Return(loads(entry0)) /\ trace = <<>>)
    /\ \A u \in stored : cache[CacheFile(u)] # NoFile

C16_Witness ==
    /\ frame.fn = "_nominatim_request"
    /\ frame.query = <<"state", "city">>
    /\ frame.url = QueryUrl(<<"city", "state">>)
    /\ frame.url \in stored
    /\ ReturnedFromCache
    /\ result = Return(loads(entry0))

\* C17 (as stated): an Overpass request answered from the cache performs no
\* name resolution: the lookup comes before the pin.
C17_Original ==
    (ReturnedFromCache /\ frame.fn = "_overpass_request")
    => (GethostbynameCalls(trace) = 0 /\ EventsOf({"GET"}) = {})

\* C17 (amended): the pin comes first: every attempt of an Overpass request
\* begins with the name resolution of the endpoint host, and a request
\* answered from the cache has resolved the host once and installed the
\* override for it.
C17_PinBeforeLookup ==
    frame.fn = "_overpass_request" =>
        /\ pc # "enter" =>
              /\ trace # <<>>
              /\ trace[1] = Ev("gethostbyname", settings.overpass_endpoint, 0)
        /\ ReturnedFromCache =>
              /\ GethostbynameCalls(trace) = 1
              /\ EventsOf({"status", "sleep", "POST", "write"}) = {}
              /\ socket_getaddrinfo.hostname = settings.overpass_endpoint
              /\ settings.overpass_endpoint \in pinned

C17_Witness ==
    /\ ReturnedFromCache
    /\ frame.fn = "_overpass_request"
    /\ trace = <<Ev("gethostbyname", settings.overpass_endpoint, 0)>>
    /\ socket_getaddrinfo.ip \in IPs

\* C18 (as stated): a hostname pinned to an IP keeps resolving to that IP
\* after a different hostname is pinned.
C18_Original ==
    [][(socket_getaddrinfo.ip \in IPs
          /\ socket_getaddrinfo'.hostname # socket_getaddrinfo.hostname)
       => PinnedResolves(socket_getaddrinfo', socket_getaddrinfo.hostname,
                         socket_getaddrinfo.ip)]_vars

\* C18 (amended): the override holds one hostname, the one pinned last: it
\* resolves to its pinned IP, and every other hostname, pinned earlier or
\* never, resolves as the system resolver answers.
C18_LastPinOnly ==
    /\ pinned = {} <=> socket_getaddrinfo = Unpatched
    /\ pinned # {} => socket_getaddrinfo.hostname \in pinned
    /\ \A h \in pinned \ {socket_getaddrinfo.hostname} : \A sys \in SysAnswers :
          _getaddrinfo(socket_getaddrinfo, h, sys) = sys
    /\ socket_getaddrinfo.ip \in IPs =>
          PinnedResolves(socket_getaddrinfo, socket_getaddrinfo.hostname,
                         socket_getaddrinfo.ip)
    /\ (result.kind = "addr" /\ frame.url[1] \in pinned \ {socket_getaddrinfo.hostname})
          => result.str = trace[1].a

C18_Witness ==
    /\ pinned = OverpassHosts
    /\ frame.fn = "_config_dns"
    /\ result = Return(None)
    /\ socket_getaddrinfo.ip \in IPs
    /\ \E h \in pinned \ {socket_getaddrinfo.hostname} :
          _getaddrinfo(socket_getaddrinfo, h, "ip1") # _getaddrinfo(socket_getaddrinfo, h, "ip2")

\* C19 (as stated): _get_pause(endpoint, r, d) sleeps r after every
\* "Currently" answer and, when an unrecognised status follows, returns d.
C19_Original ==
    (frame.fn = "_get_pause" /\ settings.overpass_rate_limit) =>
        /\ \A i \in EventsOf({"sleep"}) :
              trace[i] = Ev("sleep", "recursive", frame.recursive_delay)
        /\ \A i \in EventsOf({"status"}) :
              trace[i].a = "recurse" => (i < Len(trace) /\ trace[i + 1].e = "sleep")
        /\ (PauseReturned /\ IsFallback(gp.answer))
              => PolledPause = frame.default_duration

\* the pacing before the query at position i of the attempt's trace
PacingSleep(i) ==
    /\ i > 1
    /\ trace[i - 1].e = "sleep"
    /\ trace[i - 1].a = "pause"
    /\ frame.fn # "_overpass_request" => trace[i - 1].n = frame.pause
IsQuery(ev) == ev.e \in {"GET", "POST"} /\ ev.a # "doh"
Queries_sent == {i \in DOMAIN trace : IsQuery(trace[i])}

\* C20 (as stated): every query is preceded in its attempt by a pacing sleep,
\* for Overpass a status poll and a sleep of its result.
C20_Original ==
    frame.fn \in RequestFns =>
        \A i \in Queries_sent :
            /\ PacingSleep(i)
            /\ frame.fn = "_overpass_request" =>
                  (i > 2 /\ trace[i - 2] = Ev("status", "return", trace[i - 1].n))

\* C20 (amended): every query is preceded in its attempt by a pacing sleep:
\* the per-service pause for Nominatim and Elevation; for Overpass, with rate
\* limiting enabled, a status poll and a sleep of its result, and with rate
\* limiting disabled a sleep of 0 without a poll.  An attempt sends at most one
\* query and each retry comes after one error sleep.
C20_Paced ==
    frame.fn \in RequestFns =>
        /\ \A i \in Queries_sent :
              /\ PacingSleep(i)
              /\ (frame.fn = "_overpass_request" /\ settings.overpass_rate_limit) =>
                    (i > 2 /\ trace[i - 2] = Ev("status", "return", trace[i - 1].n))
              /\ (frame.fn = "_overpass_request" /\ ~settings.overpass_rate_limit) =>
                    (trace[i - 1].n = 0 /\ EventsOf({"status"}) = {})
        /\ Cardinality(Queries_sent) <= 1
        /\ pc = "send" =>
              /\ Queries_sent = {}
              /\ trace # <<>>
              /\ trace[Len(trace)].e = "sleep"
              /\ count.errsleeps = count.retried

C20_Witness ==
    /\ frame.fn = "_overpass_request"
    /\ settings.overpass_rate_limit
    /\ pc = "idle"
    /\ count.retried = 1
    /\ count.errsleeps = 1
    /\ result.kind = "return"
    /\ \E i \in Queries_sent : i > 2 /\ trace[i - 2].e = "status" /\ trace[i - 1].e = "sleep"

\* a parsed body without content: an empty JSON list or object
IsEmptyBody(v) == v.t \in {"list", "dict"} /\ ~v.remark /\ v.n = 0

\* C21 (as stated): a parsed body that is empty is never written to the
\* cache, so no cache file ever holds an empty list or object.
C21_Original ==
    \A f \in Files : cache[f] # NoFile => ~IsEmptyBody(loads(cache[f]))

\* C21 (amended): only None is never written.  With caching enabled an empty
\* body received from the service is written like any other body, a direct
\* _save_to_cache of an empty body with a truthy ok writes it, and a later
\* request for the same URL is served the empty body from the cache without
\* going to the network.
C21_EmptyStored ==
    /\ \A f \in Files : cache[f] # dumps(None)
    /\ (/\ pc = "idle"
        /\ frame.fn \in RequestFns
        /\ settings.use_cache
        /\ response # NoResponse
        /\ result.kind = "return"
        /\ IsEmptyBody(result.json)) =>
            /\ count.writes = 1
            /\ cache[CacheFile(frame.url)] = dumps(result.json)
    /\ (/\ frame.fn = "_save_to_cache"
        /\ settings.use_cache
        /\ frame.flag # 0
        /\ IsEmptyBody(frame.json)) =>
            cache[CacheFile(frame.url)] = dumps(frame.json)
    /\ (CacheHitAtCall /\ IsEmptyBody(loads(entry0)) /\ pc = "idle") =>
            /\ response = NoResponse
            /\ EventsOf({"POST", "write"}) = {}
            /\ \/ result = Return(loads(entry0))
               \/ frame.fn = "_overpass_request" /\ result = Raise("KeyError")

C21_Witness ==
    /\ CacheHitAtCall
    /\ stored = {frame.url}
    /\ IsEmptyBody(loads(entry0))
    /\ pc = "idle"
    /\ result = Return(JList(0))
    /\ response = NoResponse

\* C22 (as stated): host pinning is never fatal: whatever the system resolver
\* and the DoH server answer, _config_dns completes and installs the override
\* for its hostname, and an Overpass request gets past its pin.
C22_Original ==
    /\ (frame.fn = "_config_dns" /\ pc = "idle") =>
          /\ result = Return(None)
          /\ socket_getaddrinfo.hostname = _hostname_from_url(frame.url)
    /\ (frame.fn = "_overpass_request" /\ pc # "enter") =>
          /\ result # Raise("KeyError")
          /\ socket_getaddrinfo.hostname = settings.overpass_endpoint

\* the call is a request whose URL had a cache entry when it began
EntryAtCall == frame.fn \in RequestFns /\ entry0 # NoFile

\* C23 (as stated): once an entry exists for a URL, no request changes it,
\* also when the cached body carries a remark.
C23_Original ==
    EntryAtCall => cache[CacheFile(frame.url)] = entry0

\* C23 (amended): a request leaves an entry without remark as it is.  An
\* entry whose body carries a remark is reported absent by the strict lookup,
\* so with caching enabled the request goes to the network and, when it
\* returns, has replaced the entry by the body it returns; until then, and
\* when it raises or caching is disabled, the entry is as it was.  A direct
\* _save_to_cache that writes replaces the entry.  No entry is ever removed.
C23_OnlyRemarkReplaced ==
    /\ (EntryAtCall /\ ~InRemark(loads(entry0))) =>
          cache[CacheFile(frame.url)] = entry0
    /\ (EntryAtCall /\ InRemark(loads(entry0))) =>
          IF pc = "idle" /\ result.kind = "return" /\ settings.use_cache
          THEN /\ response # NoResponse
               /\ count.writes = 1
               /\ cache[CacheFile(frame.url)] = dumps(result.json)
          ELSE cache[CacheFile(frame.url)] = entry0
    /\ (frame.fn = "_save_to_cache" /\ entry0 # NoFile) =>
          cache[CacheFile(frame.url)] =
              IF settings.use_cache /\ frame.flag # 0 /\ frame.json # None
              THEN dumps(frame.json)
              ELSE entry0
    /\ \A u \in stored : cache[CacheFile(u)] # NoFile

C23_Witness ==
    /\ EntryAtCall
    /\ InRemark(loads(entry0))
    /\ pc = "idle"
    /\ count.writes = 1
    /\ cache[CacheFile(frame.url)] # entry0
    /\ cache[CacheFile(frame.url)] = dumps(loads(response.text))

\* C25: a features download over k sub-polygons runs its Overpass requests
\* one at a time in sub-polygon order (the request in flight is the one after
\* those that returned) and returns the k bodies in that order; when a
\* sub-request raises, the download raises, it has issued no later
\* sub-request and it returns no list.
C25_Sequential ==
    /\ Len(download.response_jsons) = Len(download.done)
    /\ \A i \in DOMAIN download.done :
          /\ download.done[i].url =
                Url(download.done[i].url[1], "/api/interpreter",
                    _create_overpass_query(download.polygon_coord_strs[i]))
          /\ download.response_jsons[i] = download.done[i].json
    /\ download.state = "loop" =>
          /\ download.issued = Len(download.done) + 1
          /\ frame.fn = "_overpass_request"
          /\ frame.url[3] =
                _create_overpass_query(download.polygon_coord_strs[download.issued])
          /\ download.value = <<>>
    /\ download.state = "returned" =>
          /\ download.issued = Len(download.polygon_coord_strs)
          /\ Len(download.done) = Len(download.polygon_coord_strs)
          /\ download.value = download.response_jsons
    /\ download.state = "raised" =>
          /\ frame.fn = "_overpass_request" => (pc = "idle" /\ result.kind = "raise")
          /\ download.issued = Len(download.done) + 1
          /\ download.value = <<>>

C25_Witness ==
    /\ download.state = "returned"
    /\ Len(download.value) = 2
    /\ download.value[1] # download.value[2]
    /\ response # NoResponse

\* what C26 says of a state in which caching is disabled
C26_State ==
    ~settings.use_cache =>
        /\ \A u \in Urls, check_remark \in {0, 1} :
              _retrieve_from_cache(cache, u, check_remark) = None
        /\ (frame.fn = "_retrieve_from_cache" /\ ncalls > 0) => result = Return(None)
        /\ frame.fn = "_save_to_cache" =>
              (trace = <<>> /\ cache[CacheFile(frame.url)] = entry0)
        /\ frame.fn \in RequestFns =>
              /\ count.writes = 0
              /\ EventsOf({"write"}) = {}
              /\ cache[CacheFile(frame.url)] = entry0
              /\ (pc = "idle" /\ result.kind = "return") =>
                    /\ response # NoResponse
                    /\ Queries_sent # {}
                    /\ result = Return(loads(response.text))

\* C26: with caching disabled, lookup reports absent even when an entry for
\* the URL exists, no request is answered from the cache (a request that
\* returns has sent its query and returns the body of the response), and no
\* step of any request or cache function changes the cache folder.
C26_CacheOff ==
    /\ []C26_State
    /\ [][~settings.use_cache => cache' = cache]_vars

C26_Witness ==
    /\ ~settings.use_cache
    /\ frame.fn \in RequestFns
    /\ entry0 # NoFile
    /\ ~InRemark(loads(entry0))
    /\ pc = "idle"
    /\ result.kind = "return"
    /\ response # NoResponse
    /\ result.json # loads(entry0)
    /\ cache[CacheFile(frame.url)] = entry0

\* the request functions that retry
LoopFns == {"_overpass_request", "_nominatim_request"}

\* the exceptions of _parse_response
DecodeFailures == {"InsufficientResponseError", "ResponseStatusCodeError"}

\* the other exceptions that leave a request function: of the request itself,
\* of the status poll, of the pin, and of the unbound this_pause
OtherFailures ==
    {"ConnectionError", "ReadTimeout", "IndexError", "ValueError", "KeyError",
     "UnboundLocalError"}

\* C24 (as stated): an Overpass or Nominatim request ends either by returning
\* a parsed body or with a decode failure, and in no other way.
C24_Original ==
    (frame.fn \in LoopFns /\ pc = "idle") =>
        \/ result.kind = "return"
        \/ result.kind = "raise" /\ result.str \in DecodeFailures

\* how C24 (amended) lets a finished request end
C24_Ending ==
    (frame.fn \in LoopFns /\ pc = "idle") =>
        /\ \/ result.kind = "return" /\ result.json # None
           \/ result.kind = "raise" /\ result.str \in DecodeFailures \cup OtherFailures
        /\ response # NoResponse => response.status_code \notin {429, 504}
        /\ result.str \in DecodeFailures => response # NoResponse
        /\ count.retried <= MaxRetries

\* C24 (amended): when the service answers 429/504 only finitely often and
\* the status endpoint reports "Currently" only finitely often, every Overpass
\* and Nominatim request eventually finishes and never stays in the retry
\* loop forever; it ends by returning a parsed body, with a decode failure, or
\* with one of the exceptions nothing catches (ConnectionError of the request,
\* ReadTimeout, IndexError or ValueError of the status poll, KeyError of the
\* pin, UnboundLocalError when Overpass is given a pause); no request ends on
\* a 429/504 response.
C24_Finishes ==
    /\ []C24_Ending
    /\ (frame.fn \in LoopFns /\ pc # "idle") ~> (pc = "idle")

C24_Witness ==
    /\ frame.fn = "_nominatim_request"
    /\ pc = "idle"
    /\ count.retried = MaxRetries
    /\ result.kind = "raise"
    /\ result.str \in DecodeFailures

====
